---- MODULE Spec2Model ----
(***************************************************************************)
(* The event brain of go-joe/joe (brain.go): Brain.Emit, the queue         *)
(* goroutine of Brain.consumeEvents, the dispatch loop of                  *)
(* Brain.HandleEvents and Brain.Shutdown, as communicating processes.      *)
(*                                                                         *)
(* The three channels of the Brain are unbuffered, so every send/receive   *)
(* pair is one joint step of the two goroutines involved.  Every atomic    *)
(* load, store, compare-and-swap and close of the code is a step of its    *)
(* own, so that all interleavings of the goroutines are explored.  A Go    *)
(* panic (send on a closed channel, close of a closed channel) ends the    *)
(* program: it is recorded in `panicked` and no step follows it.           *)
(*                                                                         *)
(* In Spec handleEvent is two steps: the handler pass (all handlers of    *)
(* the event have returned, within handlerTimeout) and the callbacks.  The *)
(* producer "h" is a handler function that calls Emit while it runs, as    *)
(* in TestBot_HandlerEvents.                                               *)
(*                                                                         *)
(* SpecDispatch and SpecShutdownCtx follow handleEvent step by step: the   *)
(* registry of Brain.RegisterHandler and Bot.Respond, determineHandlers    *)
(* (the keys of the Go map b.handlers are visited in any order), one       *)
(* goroutine per handler in executeEventHandler, the handler timeout, the  *)
(* ctx of the shutdown request, FinishEventContent and the callbacks.  A   *)
(* handler function may return, never return, or call FinishEventContent   *)
(* at any time before it returns.                                          *)
(***************************************************************************)
EXTENDS Integers, Sequences, FiniteSets, TLC

\* ------------------------------------------------------------------ bounds
MaxEmit == 2                       \* Emit calls made by each producer
Producers == {"p1"}                \* goroutines calling Emit from outside
HandlerProducer == "h"             \* a handler that calls Emit while it runs
Emitters == Producers \cup {HandlerProducer}
Callers == {"s1", "s2"}            \* goroutines calling Shutdown
Cancellable == {"s2"}              \* callers whose ctx may be cancelled

MaxHandlers == 2                   \* handlers registered before the bot runs
MaxMessages == 1                   \* messages received while shutting down
Shapes == {"ReceiveMessageEvent", "Any"}
                                   \* parameter types handlers are registered with
Interfaces == {"Any"}              \* those that are interface types: interface{}
Patterns == {"hello"}              \* expressions given to Bot.Respond
NoPattern == "none"                \* handler not registered through Bot.Respond
NoTimeout == 0                     \* handlerTimeout: zero means no timeout
DefaultHandlerTimeout == 1         \* time.Minute: some positive duration
HandlerTimeouts == {NoTimeout, DefaultHandlerTimeout}

NoError == <<"nil">>               \* the nil error
NilValue == "nil"                  \* the nil interface value
Faults == {"error", "panic", "panic(nil)"}
                                   \* ways a handler function can fail
HandlerError == <<"handler error">>
DeadlineExceeded == <<"context deadline exceeded">>
Canceled == <<"context canceled">>

ZeroValueType == "reflect: call of reflect.Value.Type on zero Value"

NoEvent == <<"none", 0>>
NoRequest == "nil"
InitEvent == <<"InitEvent", 0>>
ShutdownEvent == <<"ShutdownEvent", 0>>
NoPanic == "none"
SendOnClosed == "send on closed channel"
CloseOfClosed == "close of closed channel"

VARIABLES
    closed,          \* Brain.closed (int32, accessed atomically)
    handlingEvents,  \* Brain.handlingEvents (int32, accessed atomically)
    inputClosed,     \* close(b.eventsInput) has happened
    loopClosed,      \* close(b.eventsLoop) has happened
    queue,           \* the queue slice of the consumeEvents goroutine
    pcQ,             \* position of the consumeEvents goroutine
    flushI,          \* index of the `range queue` loop that flushes
    pcL,             \* position of HandleEvents
    cur,             \* the event handleEvent is working on
    shutdownReq,     \* the local `shutdown` of HandleEvents (its callback)
    pcE,             \* position of each Emit caller
    nEmit,           \* Emit calls made so far by each producer
    pcS,             \* position of each Shutdown caller
    ctxDone,         \* the ctx of each Shutdown caller is cancelled
    panicked,        \* the runtime panic that ended the program, if any
    \* history, read by the properties only
    accepted,        \* events in the order the queue goroutine appended them
    started,         \* events in the order handleEvent was entered
    finished,        \* events in the order handleEvent returned
    lateEmit,        \* an Emit was called after a Shutdown call had returned
    closeCalls,      \* number of close(b.eventsInput) calls made
    nReq,            \* number of shutdownRequests the loop received
    winner,          \* the Shutdown call whose compare-and-swap succeeded
    winnerInfo,      \* what that call found when it was made
    queuedAtStart,   \* an event was queued when HandleEvents was called
    \* the handler registry and the handler pass of handleEvent
    handlers,        \* Brain.handlers: parameter type -> handlers, in order
    nHandlers,       \* handlers registered so far
    handlerTimeout,  \* Brain.handlerTimeout (zero means no timeout)
    hh,              \* the `handlers` slice of the running handleEvent
    hi,              \* index of its `range handlers` loop
    hstatus,         \* what the goroutine of each entry of hh is doing
    abortEarly,      \* evt.AbortEarly of the running handleEvent
    cbLog,           \* callbacks of the event invoked so far, in order
    \* history, read by the properties only
    abortBy,         \* entries of hh that have called FinishEventContent
    cbCounts,        \* callbacks invoked for each finished event
    faults,          \* entries of hh whose function failed, and how
    logged,          \* "Event handler failed" entries logged for the event
    \* the registration errors of the brain and the Run call of the bot
    registrationErrs,\* b.registrationErrs
    bot,             \* Bot.initErr, the position and the result of Bot.Run
    \* Auth
    store,           \* the permissions stored under the key of each user
    ret,             \* the last call of Auth and what it returned
    \* CLIAdapter
    cli,             \* the adapter, its loop and the goroutines calling it
    \* the payload of the event that is handled
    payload          \* Event.Data, the copies handlers got, what was observed

vars == <<closed, handlingEvents, inputClosed, loopClosed, queue, pcQ, flushI,
          pcL, cur, shutdownReq, pcE, nEmit, pcS, ctxDone, panicked,
          accepted, started, finished, lateEmit, closeCalls, nReq, winner,
          winnerInfo, queuedAtStart, handlers, nHandlers, handlerTimeout,
          hh, hi, hstatus, abortEarly, cbLog, abortBy, cbCounts, faults,
          logged, registrationErrs, bot, store, ret, cli, payload>>

brainVars == <<closed, handlingEvents, inputClosed, loopClosed>>
queueVars == <<queue, pcQ, flushI>>
loopVars == <<pcL, cur, shutdownReq>>
emitVars == <<pcE, nEmit>>
shutVars == <<pcS, ctxDone>>
histVars == <<accepted, started, finished, lateEmit, closeCalls, nReq,
              winner, winnerInfo, queuedAtStart>>
registryVars == <<handlers, nHandlers, handlerTimeout>>
passVars == <<hh, hi, hstatus, abortEarly, cbLog, abortBy, cbCounts>>
failVars == <<faults, logged>>
botVars == <<registrationErrs, bot>>
authVars == <<store, ret>>
adapterVars == <<cli>>
payloadVars == <<payload>>
hVars ==
    <<registryVars, passVars, failVars, botVars, authVars, adapterVars,
      payloadVars>>

\* ----------------------------------------------------------------- helpers
Range(s) == {s[i] : i \in 1..Len(s)}

IsPrefix(s, t) == /\ Len(s) <= Len(t)
                  /\ \A i \in 1..Len(s) : s[i] = t[i]

Event(p, n) == <<p, n>>

IsProducerEvent(e) == e[1] \in Emitters

NoCall == [handling |-> FALSE, n |-> 0, running |-> FALSE]

Alive == panicked = NoPanic

\* faulty variant of isClosed: the flag is never seen as set
isClosedNever == FALSE

isClosed == closed = 1

\* faulty variant of isHandlingEvents: the loop is taken to be running
isHandlingEventsAlways == TRUE

isHandlingEvents == handlingEvents = 1

\* The users and the scopes of the permission checks.  A scope is a string,
\* written as the sequence of its characters.
Users == {"fgrosse", "dave"}
Scopes ==
    {<<>>,
     <<"a">>,
     <<"a", ".", "b">>,
     <<"a", ".", "b", "c">>,
     <<"a", ".", "b", ".", "c">>,
     <<"a", ".", "c">>}

\* no value is stored under the key of the user
NoPermissions == [ok |-> FALSE, permissions |-> <<>>]

ErrNotAllowed == <<"not allowed">>
ErrEmptyScope == <<"scope cannot be empty">>
ErrMoreGeneral ==
    <<"cannot revoke scope because the user still has the more general scope">>

\* no method of Auth has been called yet
NoAuthCall ==
    [op |-> "none", scope |-> <<>>, user |-> "none", ok |-> FALSE,
     err |-> NoError]

\* The payload of an event is a struct value with a field held by value
\* (String) and a field that refers to data outside the struct (Items, a
\* slice, map or pointer).  "foo" is what the producer emitted.
Emitted == [String |-> "foo", Items |-> "foo"]

\* Emit(event): Event.Data holds a copy of the struct, the data behind
\* Items is the producer's; no handler has got a copy, nothing was observed.
NewPayload ==
    [data |-> [String |-> Emitted.String],  \* evt.Data, fields held by value
     cell |-> Emitted.Items,                \* the data Items refers to
     args |-> <<>>,                         \* the copy each handler got
     seen |-> <<>>,                         \* what each handler observed
     cbSeen |-> <<>>]                       \* what each callback observed

\* goroutines calling Send and Close of the CLIAdapter
CLICallers == {"g1", "g2"}

NoCLICall == [op |-> "none", err |-> NoError]
ErrAlreadyClosed == <<"already closed">>
ErrAdapterClosed == <<"adapter is closed">>

\* NewCLIAdapter followed by RegisterAt: `closing` is a channel, the mutex
\* is free, nothing is printed and the loop waits in its select.
NewCLIAdapter ==
    [closing |-> TRUE,        \* a.closing # nil
     mu |-> FALSE,            \* a.mu is locked
     output |-> <<>>,         \* what was written to a.Output
     lines |-> TRUE,          \* `lines` of the loop is not nil
     loop |-> "select",       \* the position of CLIAdapter.loop
     pc |-> [c \in CLICallers |-> "idle"],
     after |-> [c \in CLICallers |-> FALSE],
     last |-> [c \in CLICallers |-> NoCLICall],
     closed |-> FALSE,        \* a call of Close has returned
     closedOutput |-> <<>>,   \* a.Output when that call returned
     calls |-> 0]

\* the types of the parameters and of the results of handler functions
ParamTypes == {"ReceiveMessageEvent", "Any", "*ReceiveMessageEvent",
               "context.Context", "*cancelCtx", "int"}
ResultTypes == {"error", "int"}

\* reflect.Type.Kind
KindOf(t) ==
    IF t \in {"*ReceiveMessageEvent", "*cancelCtx"} THEN "ptr"
    ELSE IF t \in {"Any", "context.Context", "error"} THEN "interface"
    ELSE IF t = "int" THEN "int"
    ELSE "struct"

\* the parameter types that can become a key of b.handlers
HandlerTypes == {t \in ParamTypes : KindOf(t) # "ptr"}

\* NewBrain: fresh channels, flags at zero, consumeEvents started.
InitBrain ==
    /\ closed = 0
    /\ handlingEvents = 0
    /\ inputClosed = FALSE
    /\ loopClosed = FALSE
    /\ queue = <<>>
    /\ pcQ = "select"
    /\ flushI = 1
    /\ pcL = "idle"
    /\ cur = NoEvent
    /\ shutdownReq = NoRequest
    /\ pcE = [p \in Emitters |-> "idle"]
    /\ nEmit = [p \in Emitters |-> 0]
    /\ pcS = [s \in Callers |-> "idle"]
    /\ ctxDone = [s \in Callers |-> FALSE]
    /\ Alive
    /\ accepted = <<>>
    /\ started = <<>>
    /\ finished = <<>>
    /\ lateEmit = FALSE
    /\ closeCalls = 0
    /\ nReq = 0
    /\ winner = NoRequest
    /\ winnerInfo = NoCall
    /\ queuedAtStart = FALSE

\* NewBrain: `handlers: make(map[reflect.Type][]eventHandler)`; no
\* handleEvent is running.
InitHandlers ==
    /\ handlers = [t \in HandlerTypes |-> <<>>]
    /\ nHandlers = 0
    /\ hh = <<>>
    /\ hi = 0
    /\ hstatus = <<>>
    /\ abortEarly = FALSE
    /\ cbLog = <<>>
    /\ abortBy = {}
    /\ cbCounts = <<>>
    /\ faults = {}
    /\ logged = <<>>
    /\ registrationErrs = <<>>
    /\ store = [u \in Users |-> NoPermissions]
    /\ ret = NoAuthCall
    /\ cli = NewCLIAdapter
    /\ payload = NewPayload

\* the states joe.New can leave the bot in: its modules may have failed
Bots ==
    [initErr : BOOLEAN, pc : {"idle"}, err : {NoError}, errsAtRun : {0},
     registeredAt : {FALSE}]

\* a brain that is used without a bot
NoBot == CHOOSE b \in Bots : ~b.initErr

\* NewBrain with its default `handlerTimeout: time.Minute`.
Init ==
    /\ InitBrain
    /\ InitHandlers
    /\ bot = NoBot
    /\ handlerTimeout = DefaultHandlerTimeout

\* ------------------------------------------------------------ Brain.Emit
\* Emit, first half: the isClosed check.  A closed brain logs and returns;
\* otherwise the caller goes on to send on b.eventsInput.  The producer "h"
\* is a handler function, which can only call Emit while it is running.
EmitCall(p) ==
    /\ Alive
    /\ UNCHANGED hVars
    /\ pcE[p] = "idle"
    /\ nEmit[p] < MaxEmit
    /\ p = HandlerProducer => pcL = "handlers"
    /\ nEmit' = [nEmit EXCEPT ![p] = @ + 1]
    /\ lateEmit' = (lateEmit \/ \E s \in Callers : pcS[s] = "returned")
    /\ pcE' = IF isClosed THEN pcE ELSE [pcE EXCEPT ![p] = "send"]
    /\ UNCHANGED <<brainVars, queueVars, loopVars, shutVars, panicked,
                   accepted, started, finished, closeCalls, nReq, winner,
                   winnerInfo, queuedAtStart>>

\* Emit, second half, when b.eventsInput has been closed in between: the
\* send panics.
EmitPanic(p) ==
    /\ Alive
    /\ UNCHANGED hVars
    /\ pcE[p] = "send"
    /\ inputClosed
    /\ panicked' = SendOnClosed
    /\ UNCHANGED <<brainVars, queueVars, loopVars, emitVars, shutVars,
                   histVars>>

\* ---------------------------------------------------- Brain.consumeEvents
\* faulty variant of InputRecvReady: no receive while an event is waiting in the
\* queue (an unbuffered hand-over instead of the unbounded queue)
InputRecvOnlyWhenEmpty == pcQ = "select" /\ queue = <<>>

\* `case evt, ok := <-b.eventsInput` is a case of every select of the loop.
InputRecvReady == pcQ = "select"

\* `queue = append(queue, evt)`
Enqueue(q, e) == Append(q, e)

\* The queue goroutine receives the event of a blocked Emit, which returns.
QueueAccept(p) ==
    /\ Alive
    /\ UNCHANGED hVars
    /\ InputRecvReady
    /\ ~inputClosed
    /\ pcE[p] = "send"
    /\ queue' = Enqueue(queue, Event(p, nEmit[p]))
    /\ accepted' = Append(accepted, Event(p, nEmit[p]))
    /\ pcE' = [pcE EXCEPT ![p] = "idle"]
    /\ UNCHANGED <<brainVars, pcQ, flushI, loopVars, nEmit, shutVars,
                   panicked, started, finished, lateEmit,
                   closeCalls, nReq, winner, winnerInfo, queuedAtStart>>

\* The receive on the closed b.eventsInput yields !ok: start flushing.
QueueInputClosed ==
    /\ Alive
    /\ UNCHANGED hVars
    /\ InputRecvReady
    /\ inputClosed
    /\ pcQ' = "flush"
    /\ flushI' = 1
    /\ UNCHANGED <<brainVars, queue, loopVars, emitVars, shutVars, panicked,
                   histVars>>

\* The queue goroutine is blocked in a send on b.eventsLoop: the select
\* case `outChan() <- nextEvt()` (disabled while the queue is empty) or the
\* flush loop.
QueueSending ==
    \/ pcQ = "select" /\ queue # <<>>
    \/ pcQ = "flush" /\ flushI <= Len(queue)

nextEvt == IF pcQ = "select" THEN Head(queue) ELSE queue[flushI]

\* What the queue goroutine does once its send was received.
QueueSent ==
    IF pcQ = "select"
    THEN queue' = Tail(queue) /\ UNCHANGED <<pcQ, flushI>>
    ELSE flushI' = flushI + 1 /\ UNCHANGED <<queue, pcQ>>

\* faulty variant of FlushDone: b.eventsLoop is closed without flushing the queue
FlushSkipped == TRUE

\* The flush loop has sent every remaining event.
FlushDone == flushI > Len(queue)

QueueCloseLoop ==
    /\ Alive
    /\ UNCHANGED hVars
    /\ pcQ = "flush"
    /\ FlushDone
    /\ loopClosed' = TRUE
    /\ pcQ' = "done"
    /\ UNCHANGED <<closed, handlingEvents, inputClosed, queue, flushI,
                   loopVars, emitVars, shutVars, panicked, histVars>>

\* ----------------------------------------------------- Brain.HandleEvents
\* faulty variant of AfterStore: the loop is entered without the InitEvent
AfterStoreSkipInit == "select"

\* Where HandleEvents goes after storing handlingEvents: the InitEvent.
AfterStore == "init"

HandleEventsCall ==
    /\ Alive
    /\ UNCHANGED hVars
    /\ pcL = "idle"
    /\ pcL' = IF isClosed THEN "returned" ELSE "store"
    /\ queuedAtStart' = (queue # <<>>)
    /\ UNCHANGED <<brainVars, queueVars, cur, shutdownReq, emitVars,
                   shutVars, panicked, accepted, started, finished, lateEmit,
                   closeCalls, nReq, winner, winnerInfo>>

LoopStore ==
    /\ Alive
    /\ UNCHANGED hVars
    /\ pcL = "store"
    /\ handlingEvents' = 1
    /\ pcL' = AfterStore
    /\ UNCHANGED <<closed, inputClosed, loopClosed, queueVars, cur,
                   shutdownReq, emitVars, shutVars, panicked, histVars>>

\* handleEvent is entered with evt.
BeginHandle(evt) ==
    /\ cur' = evt
    /\ started' = Append(started, evt)
    /\ pcL' = "handlers"

LoopInit ==
    /\ Alive
    /\ UNCHANGED hVars
    /\ pcL = "init"
    /\ BeginHandle(InitEvent)
    /\ UNCHANGED <<brainVars, queueVars, shutdownReq, emitVars, shutVars,
                   panicked, accepted, finished, lateEmit,
                   closeCalls, nReq, winner, winnerInfo, queuedAtStart>>

\* `case evt, ok := <-b.eventsLoop` with ok: the loop takes the next event.
LoopTake ==
    /\ Alive
    /\ UNCHANGED hVars
    /\ pcL = "select"
    /\ QueueSending
    /\ BeginHandle(nextEvt)
    /\ QueueSent
    /\ UNCHANGED <<brainVars, shutdownReq, emitVars, shutVars, panicked,
                   accepted, finished, lateEmit, closeCalls,
                   nReq, winner, winnerInfo, queuedAtStart>>

\* `case evt, ok := <-b.eventsLoop` with !ok: dispatch the ShutdownEvent.
LoopClosed ==
    /\ Alive
    /\ UNCHANGED hVars
    /\ pcL = "select"
    /\ loopClosed
    /\ BeginHandle(ShutdownEvent)
    /\ UNCHANGED <<brainVars, queueVars, shutdownReq, emitVars, shutVars,
                   panicked, accepted, finished, lateEmit,
                   closeCalls, nReq, winner, winnerInfo, queuedAtStart>>

\* The handler pass of handleEvent has ended (all handlers returned; the
\* handler that emits has returned from its Emit).
LoopHandlersDone ==
    /\ Alive
    /\ UNCHANGED hVars
    /\ pcL = "handlers"
    /\ pcE[HandlerProducer] = "idle"
    /\ pcL' = "callbacks"
    /\ UNCHANGED <<brainVars, queueVars, cur, shutdownReq, emitVars,
                   shutVars, panicked, histVars>>

\* The callbacks have run and handleEvent returns: back to the select, or,
\* after the ShutdownEvent, on to `shutdown.callback <- true`.
LoopCallbacksDone ==
    /\ Alive
    /\ UNCHANGED hVars
    /\ pcL = "callbacks"
    /\ finished' = Append(finished, cur)
    /\ pcL' = IF cur = ShutdownEvent THEN "callback" ELSE "select"
    /\ cur' = NoEvent
    /\ UNCHANGED <<brainVars, queueVars, shutdownReq, emitVars, shutVars,
                   panicked, accepted, started, lateEmit,
                   closeCalls, nReq, winner, winnerInfo, queuedAtStart>>

\* `case shutdown = <-b.shutdown`: the request of a blocked Shutdown call.
LoopRecvShutdown(s) ==
    /\ Alive
    /\ UNCHANGED hVars
    /\ pcL = "select"
    /\ pcS[s] = "sendReq"
    /\ shutdownReq' = s
    /\ nReq' = nReq + 1
    /\ pcS' = [pcS EXCEPT ![s] = "waitCallback"]
    /\ pcL' = "closeInput"
    /\ UNCHANGED <<brainVars, queueVars, cur, emitVars, ctxDone, panicked,
                   accepted, started, finished, lateEmit,
                   closeCalls, winner, winnerInfo, queuedAtStart>>

\* close(b.eventsInput): closing a closed channel panics.
CloseInput ==
    /\ closeCalls' = closeCalls + 1
    /\ IF inputClosed
       THEN panicked' = CloseOfClosed /\ inputClosed' = inputClosed
       ELSE panicked' = panicked /\ inputClosed' = TRUE

LoopCloseInput ==
    /\ Alive
    /\ UNCHANGED hVars
    /\ pcL = "closeInput"
    /\ CloseInput
    /\ pcL' = "storeZero"
    /\ UNCHANGED <<closed, handlingEvents, loopClosed, queueVars, cur,
                   shutdownReq, emitVars, shutVars, accepted, started,
                   finished, lateEmit, nReq, winner, winnerInfo,
                   queuedAtStart>>

LoopStoreZero ==
    /\ Alive
    /\ UNCHANGED hVars
    /\ pcL = "storeZero"
    /\ handlingEvents' = 0
    /\ pcL' = "select"
    /\ UNCHANGED <<closed, inputClosed, loopClosed, queueVars, cur,
                   shutdownReq, emitVars, shutVars, panicked, histVars>>

\* `shutdown.callback <- true`: received by the Shutdown call that sent the
\* request.  Without a request the channel is nil and the send never ends.
LoopCallback ==
    /\ Alive
    /\ UNCHANGED hVars
    /\ pcL = "callback"
    /\ shutdownReq # NoRequest
    /\ pcS[shutdownReq] = "waitCallback"
    /\ pcL' = "returned"
    /\ pcS' = [pcS EXCEPT ![shutdownReq] = "returned"]
    /\ UNCHANGED <<brainVars, queueVars, cur, shutdownReq, emitVars, ctxDone,
                   panicked, histVars>>

\* --------------------------------------------------------- Brain.Shutdown
\* faulty variant of CompareAndSwapClosed: a plain store, every caller goes on
StoreClosedAlways == TRUE

\* atomic.CompareAndSwapInt32(&b.closed, 0, 1) succeeds
CompareAndSwapClosed == closed = 0

\* faulty variant of AlreadyClosing: the `return` is missing and the call goes on
AlreadyClosingFallsThrough == "check"

\* `if !closing { return }`: where a call goes whose swap failed
AlreadyClosing == "returned"

\* the shutdown that is under way has run to its end
ShutdownComplete ==
    /\ loopClosed
    /\ nReq > 0 => ShutdownEvent \in Range(finished)

ShutdownCall(s) ==
    /\ Alive
    /\ UNCHANGED hVars
    /\ pcS[s] = "idle"
    /\ IF CompareAndSwapClosed
       THEN /\ closed' = 1
            /\ pcS' = [pcS EXCEPT ![s] = "check"]
            /\ winner' = s
            /\ winnerInfo' = [handling |-> isHandlingEvents,
                              n |-> Len(accepted),
                              running |-> pcL \notin {"idle", "returned"}]
       ELSE /\ closed' = closed
            /\ pcS' = [pcS EXCEPT ![s] = AlreadyClosing]
            /\ UNCHANGED <<winner, winnerInfo>>
    /\ UNCHANGED <<handlingEvents, inputClosed, loopClosed, queueVars,
                   loopVars, emitVars, ctxDone, panicked, accepted, started,
                   finished, lateEmit, closeCalls, nReq, queuedAtStart>>

ShutdownCheck(s) ==
    /\ Alive
    /\ UNCHANGED hVars
    /\ pcS[s] = "check"
    /\ pcS' = [pcS EXCEPT ![s] = IF isHandlingEvents THEN "sendReq"
                                 ELSE "closeInput"]
    /\ UNCHANGED <<brainVars, queueVars, loopVars, emitVars, ctxDone,
                   panicked, histVars>>

ShutdownCloseInput(s) ==
    /\ Alive
    /\ UNCHANGED hVars
    /\ pcS[s] = "closeInput"
    /\ CloseInput
    /\ pcS' = [pcS EXCEPT ![s] = "drain"]
    /\ UNCHANGED <<closed, handlingEvents, loopClosed, queueVars, loopVars,
                   emitVars, ctxDone, accepted, started, finished, lateEmit,
                   nReq, winner, winnerInfo, queuedAtStart>>

\* faulty variant of DrainRecvReady: Shutdown waits without receiving
DrainNever == FALSE

\* `case _, ok := <-b.eventsLoop` of the drain loop can receive
DrainRecvReady == QueueSending

\* drain loop, ok: the event is thrown away
ShutdownDrain(s) ==
    /\ Alive
    /\ UNCHANGED hVars
    /\ pcS[s] = "drain"
    /\ DrainRecvReady
    /\ QueueSent
    /\ UNCHANGED <<brainVars, loopVars, emitVars, shutVars, panicked,
                   histVars>>

\* drain loop, !ok: b.eventsLoop is closed, Shutdown returns
ShutdownDrained(s) ==
    /\ Alive
    /\ UNCHANGED hVars
    /\ pcS[s] = "drain"
    /\ loopClosed
    /\ pcS' = [pcS EXCEPT ![s] = "returned"]
    /\ UNCHANGED <<brainVars, queueVars, loopVars, emitVars, ctxDone,
                   panicked, histVars>>

\* drain loop, `case <-ctx.Done()`: Shutdown returns
ShutdownCtxDone(s) ==
    /\ Alive
    /\ UNCHANGED hVars
    /\ pcS[s] = "drain"
    /\ ctxDone[s]
    /\ pcS' = [pcS EXCEPT ![s] = "returned"]
    /\ UNCHANGED <<brainVars, queueVars, loopVars, emitVars, ctxDone,
                   panicked, histVars>>

\* The caller of Shutdown cancels the ctx it passed.
CancelCtx(s) ==
    /\ Alive
    /\ UNCHANGED hVars
    /\ s \in Cancellable
    /\ pcS[s] \notin {"idle", "returned"}
    /\ ~ctxDone[s]
    /\ ctxDone' = [ctxDone EXCEPT ![s] = TRUE]
    /\ UNCHANGED <<brainVars, queueVars, loopVars, emitVars, pcS, panicked,
                   histVars>>

\* ----------------------------------------------------------- specification
Next ==
    \/ \E p \in Emitters : EmitCall(p)
    \/ \E p \in Emitters : EmitPanic(p)
    \/ \E p \in Emitters : QueueAccept(p)
    \/ QueueInputClosed
    \/ QueueCloseLoop
    \/ HandleEventsCall
    \/ LoopStore
    \/ LoopInit
    \/ LoopTake
    \/ LoopClosed
    \/ LoopHandlersDone
    \/ LoopCallbacksDone
    \/ \E s \in Callers : LoopRecvShutdown(s)
    \/ LoopCloseInput
    \/ LoopStoreZero
    \/ LoopCallback
    \/ \E s \in Callers : ShutdownCall(s)
    \/ \E s \in Callers : ShutdownCheck(s)
    \/ \E s \in Callers : ShutdownCloseInput(s)
    \/ \E s \in Callers : ShutdownDrain(s)
    \/ \E s \in Callers : ShutdownDrained(s)
    \/ \E s \in Callers : ShutdownCtxDone(s)
    \/ \E s \in Callers : CancelCtx(s)

Spec == Init /\ [][Next]_vars

\* ------------------------------------- a brain whose loop is never started
\* HandleEvents is never called; the events are emitted beforehand, so no
\* Emit is between its isClosed check and its send when Shutdown is called.
ShutdownCallAfterEmits(s) ==
    /\ \A p \in Emitters : pcE[p] = "idle"
    /\ ShutdownCall(s)

QueueStep ==
    \/ \E p \in Emitters : QueueAccept(p)
    \/ QueueInputClosed
    \/ QueueCloseLoop

ShutdownStep(s) ==
    \/ ShutdownCheck(s)
    \/ ShutdownCloseInput(s)
    \/ ShutdownDrain(s)
    \/ ShutdownDrained(s)
    \/ ShutdownCtxDone(s)

NextNoLoop ==
    \/ \E p \in Emitters : EmitCall(p)
    \/ QueueStep
    \/ \E s \in Callers : ShutdownCallAfterEmits(s)
    \/ \E s \in Callers : ShutdownStep(s)
    \/ \E s \in Callers : CancelCtx(s)

\* Every goroutine that can take a step eventually takes one; when a ctx
\* is cancelled, and when Emit and Shutdown are called, is up to the caller.
FairSpecNoLoop ==
    /\ Init
    /\ [][NextNoLoop]_vars
    /\ WF_vars(QueueStep)
    /\ \A s \in Callers : WF_vars(ShutdownStep(s))

\* ------------------------------------------- registry and handler pass
\* The brain with handleEvent step by step: the handlers are registered
\* before the brain is used, the events are the messages of one adapter
\* (ReceiveMessageEvent), and a handler function may return, never return,
\* or call FinishEventContent before it returns.

\* reflect.ValueOf(evt.Data).Type(): always a concrete type
TypeOf(e) ==
    IF e = InitEvent THEN "InitEvent"
    ELSE IF e = ShutdownEvent THEN "ShutdownEvent"
    ELSE "ReceiveMessageEvent"

\* ReceiveMessageEvent.Text of the n-th message of a producer
Text(e) == IF e[2] % 2 = 1 THEN "hello" ELSE "bye"

\* len(evt.Callbacks): the n-th Emit of a producer passes n callbacks; the
\* InitEvent and the ShutdownEvent are built without callbacks.
Callbacks(e) == IF IsProducerEvent(e) THEN e[2] ELSE 0

\* regex.FindStringSubmatch(evt.Text) finds a match ("^(?i)hello$")
FindStringSubmatch(expr, text) == expr = text

\* evtType.Implements(handlerType): every type implements interface{}
Implements(t, sh) == sh = "Any"

\* faulty variant of AppendHandler: the new handler is put in front
PrependHandler(bucket, h) == <<h>> \o bucket

\* append(b.handlers[evtType], handlerFun)
AppendHandler(bucket, h) == Append(bucket, h)

\* registerHandler: `b.handlers[evtType] = append(...)`, for a function that
\* passed checkHandlerParams and checkHandlerReturnValues.  The handlers are
\* numbered in the order of their registration.
registerHandler(sh, expr) ==
    /\ nHandlers < MaxHandlers
    /\ pcL = "idle"
    /\ \A p \in Emitters : nEmit[p] = 0
    /\ \A s \in Callers : pcS[s] = "idle"
    /\ handlers' = [handlers EXCEPT
                      ![sh] = AppendHandler(@, [id |-> nHandlers + 1,
                                                type |-> sh,
                                                expr |-> expr])]
    /\ nHandlers' = nHandlers + 1
    /\ UNCHANGED <<handlerTimeout, passVars, failVars, botVars, authVars,
                   adapterVars, payloadVars,
                   brainVars, queueVars, loopVars, emitVars, shutVars,
                   panicked, histVars>>

\* Brain.RegisterHandler with a function whose event parameter has type sh
RegisterHandler(sh) == registerHandler(sh, NoPattern)

\* Bot.RespondRegex (and Bot.Respond): a handler of ReceiveMessageEvent
RespondRegex(expr) == registerHandler("ReceiveMessageEvent", expr)

\* the orders in which `range b.handlers` can visit the keys of the map
MapOrders == {o \in [1..Cardinality(Shapes) -> Shapes] : Range(o) = Shapes}

RECURSIVE AppendExact(_, _)
\* faulty variant of AppendMatching: handlers of interface types are left out
AppendExact(o, t) ==
    IF o = <<>> THEN <<>>
    ELSE (IF Head(o) = t THEN handlers[Head(o)] ELSE <<>>)
         \o AppendExact(Tail(o), t)

RECURSIVE AppendMatching(_, _)
\* the body of the `range b.handlers` loop, for the keys in the order o
AppendMatching(o, t) ==
    IF o = <<>> THEN <<>>
    ELSE (IF Head(o) = t THEN handlers[Head(o)] ELSE <<>>)
         \o (IF Head(o) \in Interfaces /\ Implements(t, Head(o))
             THEN handlers[Head(o)] ELSE <<>>)
         \o AppendMatching(Tail(o), t)

\* the slices determineHandlers can return for an event of type t
determineHandlers(t) == {AppendMatching(o, t) : o \in MapOrders}

\* the handlers registered with a parameter type that matches type t
MatchingHandlers(t) ==
    UNION {Range(handlers[sh]) :
             sh \in {x \in Shapes : x = t \/ (x \in Interfaces /\ Implements(t, x))}}

\* `handlers := b.determineHandlers(typ)`
HandleEventDetermine ==
    /\ Alive
    /\ pcL = "handlers"
    /\ \E l \in determineHandlers(TypeOf(cur)) :
          /\ hh' = l
          /\ hstatus' = [i \in 1..Len(l) |-> "none"]
    /\ hi' = 1
    /\ pcL' = "range"
    /\ UNCHANGED <<registryVars, botVars, authVars, adapterVars, payloadVars,
                   abortEarly, cbLog, abortBy,
                   cbCounts, failVars, brainVars, queueVars, cur, shutdownReq,
                   emitVars, shutVars, panicked, histVars>>

\* what a function called with the event now gets to see: the fields of
\* evt.Data and the data its Items field refers to
View(p) == [String |-> p.data.String, Items |-> p.cell]

\* faulty variant of Assign: the handler is called with a reference to
\* evt.Data, and its assignment lands there
AssignShared(p, i) == [p EXCEPT !.data.String = "bar"]

\* `evt.String = "bar"` in handler i: its parameter is assigned to
Assign(p, i) == [p EXCEPT !.args[i].String = "bar"]

\* newHandlerFunc, `handler.Call(args)`: the function is called with a copy
\* of the struct in evt.Data
Call(p) ==
    [p EXCEPT !.args = Append(@, p.data), !.seen = Append(@, View(p))]

\* executeEventHandler: `go func() { done <- handler(ctx, event) }()`
ExecuteEventHandler ==
    /\ Alive
    /\ pcL = "range"
    /\ hi <= Len(hh)
    /\ hstatus' = [hstatus EXCEPT ![hi] = "running"]
    /\ pcL' = "wait"
    /\ payload' = Call(payload)
    /\ UNCHANGED <<registryVars, botVars, authVars, adapterVars, hh, hi,
                   abortEarly, cbLog,
                   abortBy, cbCounts, failVars, brainVars, queueVars, cur,
                   shutdownReq, emitVars, shutVars, panicked, histVars>>

\* faulty variant of PassEnded: the callbacks do not wait for the loop
PassEndedAtOnce == TRUE

\* the `range handlers` loop has run through
PassEnded == hi > Len(hh)

RangeDone ==
    /\ Alive
    /\ pcL = "range"
    /\ PassEnded
    /\ pcL' = "callbacks"
    /\ UNCHANGED <<hVars, brainVars, queueVars, cur, shutdownReq, emitVars,
                   shutVars, panicked, histVars>>

\* the handler registered through Bot.Respond finds its pattern in the text
RespondMatch(h) == h.expr # NoPattern /\ FindStringSubmatch(h.expr, Text(cur))

\* A running handler calls FinishEventContent(ctx): evt.AbortEarly = true.
\* A handler of Bot.Respond does so exactly when its pattern matches.  The
\* write is ordered before the read of the loop only through the send on
\* `done` that follows the return of the handler.
FinishEventContent(i) ==
    /\ Alive
    /\ hstatus[i] = "running"
    /\ i \notin abortBy
    /\ hh[i].expr # NoPattern => RespondMatch(hh[i])
    /\ abortEarly' = TRUE
    /\ abortBy' = abortBy \cup {i}
    /\ UNCHANGED <<registryVars, botVars, authVars, adapterVars, payloadVars,
                   hh, hi, hstatus, cbLog,
                   cbCounts, failVars, brainVars, queueVars, loopVars,
                   emitVars, shutVars, panicked, histVars>>

\* The handler function returns; its goroutine goes on to `done <-`.
HandlerReturn(i) ==
    /\ Alive
    /\ hstatus[i] = "running"
    /\ RespondMatch(hh[i]) => i \in abortBy
    /\ hstatus' = [hstatus EXCEPT ![i] = "returned"]
    /\ UNCHANGED <<registryVars, botVars, authVars, adapterVars, payloadVars,
                   hh, hi, abortEarly, cbLog,
                   abortBy, cbCounts, failVars, brainVars, queueVars, loopVars,
                   emitVars, shutVars, panicked, histVars>>

\* The handler function returns an error or panics; the deferred function
\* of newHandlerFunc runs and the goroutine goes on to `done <-`.
HandlerFails(i, f) ==
    /\ Alive
    /\ hstatus[i] = "running"
    /\ RespondMatch(hh[i]) => i \in abortBy
    /\ hstatus' = [hstatus EXCEPT ![i] = "returned"]
    /\ faults' = faults \cup {<<i, f>>}
    /\ UNCHANGED <<registryVars, botVars, authVars, adapterVars, payloadVars,
                   hh, hi, abortEarly, cbLog,
                   abortBy, cbCounts, logged, brainVars, queueVars, loopVars,
                   emitVars, shutVars, panicked, histVars>>

\* how the function of entry i of hh ends: by a fault, or by returning nil
FaultOf(i) ==
    IF \E f \in Faults : <<i, f>> \in faults
    THEN CHOOSE f \in Faults : <<i, f>> \in faults
    ELSE "return"

\* the value a panicking handler function panics with
PanicValue(f) == IF f = "panic" THEN "boom" ELSE NilValue

\* `recover()` in the deferred function of newHandlerFunc: the value of the
\* panic; nil when the function did not panic
Recover(f) == IF f \in {"panic", "panic(nil)"} THEN PanicValue(f) ELSE NilValue

\* `errors.Errorf("handler panic: %v", err)`
HandlerPanic(v) == <<"handler panic: ", IF v = NilValue THEN "<nil>" ELSE v>>

\* newHandlerFunc: the error the wrapped handler returns when the function
\* ended as f: `if err := recover(); err != nil { handlerErr = ... }` after
\* a panic, else the error the function returned, else nil.
newHandlerFunc(f) ==
    IF Recover(f) # NilValue THEN HandlerPanic(Recover(f))
    ELSE IF f = "error" THEN HandlerError
    ELSE NoError

\* `if err != nil { b.logger.Error("Event handler failed", zap.Error(err)) }`
LogFailure(i, err) ==
    logged' = IF err # NoError THEN Append(logged, <<i, err>>) ELSE logged

\* executeEventHandler, `case err := <-done`
HandlerDone ==
    /\ Alive
    /\ pcL = "wait"
    /\ hstatus[hi] = "returned"
    /\ hstatus' = [hstatus EXCEPT ![hi] = "done"]
    /\ LogFailure(hi, newHandlerFunc(FaultOf(hi)))
    /\ pcL' = "check"
    /\ UNCHANGED <<registryVars, botVars, authVars, adapterVars, payloadVars,
                   hh, hi, abortEarly, cbLog,
                   abortBy, cbCounts, faults, brainVars, queueVars, cur,
                   shutdownReq, emitVars, shutVars, panicked, histVars>>

\* faulty variant of HandlerTimedOut: the timeout is not applied
HandlerNeverTimedOut ==
    /\ Alive
    /\ pcL = "wait"
    /\ FALSE
    /\ UNCHANGED vars

\* executeEventHandler, `case <-ctx.Done()`: context.WithTimeout has run out
HandlerTimedOut ==
    /\ Alive
    /\ pcL = "wait"
    /\ handlerTimeout > NoTimeout
    /\ LogFailure(hi, DeadlineExceeded)
    /\ pcL' = "check"
    /\ UNCHANGED <<registryVars, botVars, authVars, adapterVars, payloadVars,
                   passVars, faults,
                   brainVars, queueVars, cur, shutdownReq, emitVars, shutVars,
                   panicked, histVars>>

\* executeEventHandler, `case <-ctx.Done()`: the ctx of the loop is the ctx
\* of the shutdown request (`ctx = shutdown.ctx`) and has been cancelled
HandlerCtxDone ==
    /\ Alive
    /\ pcL = "wait"
    /\ shutdownReq # NoRequest
    /\ ctxDone[shutdownReq]
    /\ LogFailure(hi, Canceled)
    /\ pcL' = "check"
    /\ UNCHANGED <<registryVars, botVars, authVars, adapterVars, payloadVars,
                   passVars, faults,
                   brainVars, queueVars, cur, shutdownReq, emitVars, shutVars,
                   panicked, histVars>>

\* faulty variant of AfterBreak: handleEvent returns instead of leaving the loop
AfterBreakReturn == "return"

\* `if evt.AbortEarly { break }`: on to the callbacks
AfterBreak == "callbacks"

\* the handlers whose call of FinishEventContent happened before the loop
\* received their result from `done`
AbortSeen == {i \in abortBy : hstatus[i] = "done"}

\* The values the read of evt.AbortEarly can yield: a write of a handler
\* the loop has given up waiting for races with the read.
ReadAbortEarly ==
    IF AbortSeen # {} THEN {TRUE}
    ELSE IF abortEarly THEN {TRUE, FALSE}
    ELSE {FALSE}

CheckAbortEarly ==
    /\ Alive
    /\ pcL = "check"
    /\ \E seen \in ReadAbortEarly :
          IF seen
          THEN pcL' = AfterBreak /\ hi' = hi
          ELSE pcL' = "range" /\ hi' = hi + 1
    /\ UNCHANGED <<registryVars, botVars, authVars, adapterVars, payloadVars,
                   hh, hstatus, abortEarly,
                   cbLog, abortBy, cbCounts, failVars, brainVars, queueVars,
                   cur, shutdownReq, emitVars, shutVars, panicked, histVars>>

\* `for _, callback := range evt.Callbacks { callback(evt) }`, one round
InvokeCallback ==
    /\ Alive
    /\ pcL = "callbacks"
    /\ Len(cbLog) < Callbacks(cur)
    /\ cbLog' = Append(cbLog, Len(cbLog) + 1)
    /\ payload' = [payload EXCEPT !.cbSeen = Append(@, View(payload))]
    /\ UNCHANGED <<registryVars, botVars, authVars, adapterVars, hh, hi,
                   hstatus,
                   abortEarly, abortBy, cbCounts, failVars, brainVars,
                   queueVars, loopVars, emitVars, shutVars, panicked,
                   histVars>>

\* handleEvent returns: back to the select of HandleEvents, or, after the
\* ShutdownEvent, on to `shutdown.callback <- true`.
HandleEventReturn ==
    /\ Alive
    /\ \/ pcL = "callbacks" /\ Len(cbLog) = Callbacks(cur)
       \/ pcL = "return"
    /\ finished' = Append(finished, cur)
    /\ cbCounts' = Append(cbCounts, Len(cbLog))
    /\ pcL' = IF cur = ShutdownEvent THEN "callback" ELSE "select"
    /\ cur' = NoEvent
    /\ hh' = <<>>
    /\ hi' = 0
    /\ hstatus' = <<>>
    /\ abortEarly' = FALSE
    /\ cbLog' = <<>>
    /\ abortBy' = {}
    /\ faults' = {}
    /\ logged' = <<>>
    /\ payload' = NewPayload
    /\ UNCHANGED <<registryVars, botVars, authVars, adapterVars, brainVars,
                   queueVars,
                   shutdownReq, emitVars, shutVars, panicked, accepted,
                   started, lateEmit, closeCalls, nReq, winner, winnerInfo,
                   queuedAtStart>>

\* the steps of one handleEvent while no shutdown is under way
HandleEventStep ==
    \/ HandleEventDetermine
    \/ ExecuteEventHandler
    \/ RangeDone
    \/ HandlerDone
    \/ HandlerTimedOut
    \/ CheckAbortEarly
    \/ InvokeCallback
    \/ HandleEventReturn

\* what the handler functions do
HandlerStep ==
    \/ \E i \in 1..MaxHandlers : i <= Len(hh) /\ FinishEventContent(i)
    \/ \E i \in 1..MaxHandlers : i <= Len(hh) /\ HandlerReturn(i)

\* NewBrain followed by the options of the bot: WithHandlerTimeout
InitDispatch ==
    /\ InitBrain
    /\ InitHandlers
    /\ bot = NoBot
    /\ handlerTimeout \in HandlerTimeouts

\* A bot that registers its handlers, runs and receives messages.
NextDispatch ==
    \/ \E sh \in Shapes : RegisterHandler(sh)
    \/ \E expr \in Patterns : RespondRegex(expr)
    \/ \E p \in Producers : EmitCall(p)
    \/ \E p \in Producers : QueueAccept(p)
    \/ HandleEventsCall
    \/ LoopStore
    \/ LoopInit
    \/ LoopTake
    \/ HandleEventStep
    \/ HandlerStep

SpecDispatch == InitDispatch /\ [][NextDispatch]_vars

\* ------------------------------------------------- Brain.RegisterHandler
\* The values passed to RegisterHandler: nil, a value that is no function
\* (42), and functions.  Of a function the checks read NumIn, In(0), In(1),
\* NumOut and Out(0) only, so a function is given by these.
MaxParams == 3
MaxResults == 2
MaxRegistrations == 2
MaxCalls == 4

\* t.Implements(contextInterface)
ImplementsContext(t) == t \in {"context.Context", "*cancelCtx"}

\* t.Implements(errorInterface)
ImplementsError(t) == t = "error"

Funs ==
    [kind : {"func"}, numIn : 0..MaxParams, in0 : ParamTypes,
     in1 : ParamTypes, numOut : 0..MaxResults, out0 : ResultTypes]

\* nil and 42
NoFuns ==
    {[kind |-> k, numIn |-> 0, in0 |-> "int", in1 |-> "int", numOut |-> 0,
      out0 |-> "int"] : k \in {"nil", "int"}}

Values == Funs \cup NoFuns

\* handlerFunc.In(k)
In(fun, k) == IF k = 0 THEN fun.in0 ELSE fun.in1

\* checkHandlerParams, `if withContext { ... }`
ContextFirst(fun) ==
    IF ImplementsContext(In(fun, 1))
    THEN <<"event handler context must be the first argument">>
    ELSE IF ~ImplementsContext(In(fun, 0))
    THEN <<"event handler has two arguments but the first is not a",
           "context.Context">>
    ELSE NoError

checkHandlerParams(fun) ==
    LET numParams == fun.numIn
        evtType == In(fun, numParams - 1)
        withContext == numParams = 2
    IN  IF numParams = 0 \/ numParams > 2
        THEN [evtType |-> "", withContext |-> FALSE,
              err |-> <<"event handler needs one or two arguments">>]
        ELSE IF withContext /\ ContextFirst(fun) # NoError
        THEN [evtType |-> evtType, withContext |-> withContext,
              err |-> ContextFirst(fun)]
        ELSE IF KindOf(evtType) = "ptr"
        THEN [evtType |-> evtType, withContext |-> withContext,
              err |-> <<"event handler argument cannot be a pointer">>]
        ELSE [evtType |-> evtType, withContext |-> withContext,
              err |-> NoError]

checkHandlerReturnValues(fun) ==
    IF fun.numOut = 0 THEN [returnsError |-> FALSE, err |-> NoError]
    ELSE IF fun.numOut = 1
    THEN IF ~ImplementsError(fun.out0)
         THEN [returnsError |-> FALSE,
               err |-> <<"if the event handler has a return value it",
                         "must implement the error interface">>]
         ELSE [returnsError |-> TRUE, err |-> NoError]
    ELSE [returnsError |-> FALSE,
          err |-> <<"event handler has more than one return value">>]

\* the error registerHandler returns for a value that is not nil
registerHandlerErr(fun) ==
    IF fun.kind # "func" THEN <<"event handler is no function">>
    ELSE IF checkHandlerParams(fun).err # NoError
    THEN checkHandlerParams(fun).err
    ELSE checkHandlerReturnValues(fun).err

\* errors.Wrap(err, caller)
Wrap(err, msg) == <<msg>> \o err

\* Brain.RegisterHandler(fun).  `reflect.ValueOf(nil)` is the zero Value,
\* whose Type method panics; nothing recovers from it.  The handlers are
\* registered before the bot is run and before anything is emitted.
RegisterHandlerFun(fun) ==
    /\ Alive
    /\ pcL = "idle"
    /\ \A p \in Emitters : nEmit[p] = 0
    /\ bot.pc = "idle"
    /\ nHandlers + Len(registrationErrs) < MaxRegistrations
    /\ IF fun.kind = "nil"
       THEN /\ panicked' = ZeroValueType
            /\ UNCHANGED <<hVars, brainVars, queueVars, loopVars, emitVars,
                           shutVars, histVars>>
       ELSE IF registerHandlerErr(fun) # NoError
       THEN /\ registrationErrs' =
                   Append(registrationErrs,
                          Wrap(registerHandlerErr(fun), "caller"))
            /\ UNCHANGED <<registryVars, passVars, failVars, bot, authVars,
                           adapterVars, payloadVars,
                           brainVars, queueVars, loopVars, emitVars, shutVars,
                           panicked, histVars>>
       ELSE registerHandler(checkHandlerParams(fun).evtType, NoPattern)

\* ----------------------------------------------------------------- Bot.Run
\* faulty variant of InvalidHandlers: the registration errors are not looked at
InvalidHandlersIgnored == FALSE

\* `len(b.Brain.registrationErrs) > 0`
InvalidHandlers == Len(registrationErrs) > 0

\* Bot.Run up to its first return or to b.Adapter.RegisterAt
BotRun ==
    /\ Alive
    /\ bot.pc = "idle"
    /\ bot' = IF bot.initErr
              THEN [bot EXCEPT !.pc = "returned",
                               !.err = <<"failed to initialize bot">>,
                               !.errsAtRun = Len(registrationErrs)]
              ELSE IF InvalidHandlers
              THEN [bot EXCEPT !.pc = "returned",
                               !.err = <<"invalid event handlers">>,
                               !.errsAtRun = Len(registrationErrs)]
              ELSE [bot EXCEPT !.pc = "registerAt",
                               !.errsAtRun = Len(registrationErrs)]
    /\ UNCHANGED <<registryVars, passVars, failVars, registrationErrs,
                   authVars, adapterVars, payloadVars, brainVars, queueVars,
                   loopVars, emitVars,
                   shutVars, panicked, histVars>>

\* `b.Adapter.RegisterAt(b.Brain)`
BotRegisterAt ==
    /\ Alive
    /\ bot.pc = "registerAt"
    /\ bot' = [bot EXCEPT !.pc = "handleEvents", !.registeredAt = TRUE]
    /\ UNCHANGED <<registryVars, passVars, failVars, registrationErrs,
                   authVars, adapterVars, payloadVars, brainVars, queueVars,
                   loopVars, emitVars,
                   shutVars, panicked, histVars>>

\* `b.Brain.HandleEvents()`
BotHandleEvents ==
    /\ bot.pc = "handleEvents"
    /\ HandleEventsCall

\* joe.New with modules that may have failed, then registrations and Run
InitRun ==
    /\ InitBrain
    /\ InitHandlers
    /\ handlerTimeout = DefaultHandlerTimeout
    /\ bot \in Bots

NextRun ==
    \/ \E fun \in Values : RegisterHandlerFun(fun)
    \/ BotRun
    \/ BotRegisterAt
    \/ BotHandleEvents
    \/ \E p \in Producers : nEmit[p] < MaxMessages /\ EmitCall(p)
    \/ \E p \in Producers : QueueAccept(p)
    \/ LoopStore
    \/ LoopInit
    \/ LoopTake
    \/ HandleEventStep
    \/ HandlerStep

SpecRun == InitRun /\ [][NextRun]_vars

\* -------------------------------------------------------------------- Auth
\* faulty variant of HasPrefix: only the string itself counts as its prefix
HasPrefixEqual(str, prefix) == str = prefix

\* strings.HasPrefix: `len(s) >= len(prefix) && s[0:len(prefix)] == prefix`
HasPrefix(str, prefix) ==
    Len(str) >= Len(prefix) /\ SubSeq(str, 1, Len(prefix)) = prefix

\* Auth.loadPermissions: nil when there is no value under the key
loadPermissions(userID) ==
    IF store[userID].ok THEN store[userID].permissions ELSE <<>>

\* Auth.updatePermissions
updatePermissions(userID, permissions) ==
    store' = [store EXCEPT ![userID] =
                [ok |-> TRUE, permissions |-> permissions]]

\* what a call of Auth returns
Return(op, scope, userID, ok, err) ==
    ret' = [op |-> op, scope |-> scope, user |-> userID, ok |-> ok,
            err |-> err]

\* faulty variant of Allowed: only the first permission is looked at
AllowedByFirst(permissions, scope) ==
    permissions # <<>> /\ HasPrefix(scope, permissions[1])

\* `for _, p := range permissions { if strings.HasPrefix(scope, p) ...`
Allowed(permissions, scope) ==
    \E i \in 1..Len(permissions) : HasPrefix(scope, permissions[i])

\* Auth.CheckPermission
CheckPermission(scope, userID) ==
    /\ Return("CheckPermission", scope, userID, FALSE,
              IF Allowed(loadPermissions(userID), scope)
              THEN NoError ELSE ErrNotAllowed)
    /\ UNCHANGED <<store, registryVars, passVars, failVars, botVars,
                   adapterVars, payloadVars,
                   brainVars, queueVars, loopVars, emitVars, shutVars,
                   panicked, histVars>>

\* faulty variant of Subsumed: a granted scope replaces every other scope
SubsumedAlways(p, scope) == TRUE

\* faulty variant of Subsumed: a granted scope replaces nothing
SubsumedNever(p, scope) == FALSE

\* Grant, `!strings.HasPrefix(p, scope)` negated: p is dropped for scope
Subsumed(p, scope) == HasPrefix(p, scope)

\* faulty variant of Covered: a scope is granted though it is already held
CoveredNever(scope, p) == FALSE

\* Grant, `strings.HasPrefix(scope, p)`: the user already holds scope by p
Covered(scope, p) == HasPrefix(scope, p)

RECURSIVE GrantLoop(_, _, _)
\* the `range oldPermissions` loop of Grant: whether it returned early, and
\* the newPermissions collected so far
GrantLoop(old, scope, new) ==
    IF old = <<>> THEN [held |-> FALSE, permissions |-> new]
    ELSE IF Covered(scope, Head(old))
    THEN [held |-> TRUE, permissions |-> new]
    ELSE GrantLoop(Tail(old), scope,
                   IF ~Subsumed(Head(old), scope)
                   THEN Append(new, Head(old)) ELSE new)

\* The operation of the Memory behind the store that returns an error
\* during a call, "ok" when none does.
MemoryOutcomes == {"ok", "Get", "Set", "Delete"}

ErrLoad == <<"failed to load user permissions">>
ErrUpdate == <<"failed to update user permissions">>
ErrDelete == <<"failed to delete last user permission">>

\* Auth.Grant on a Memory whose operation `memory` fails
GrantOn(scope, userID, memory) ==
    LET loop == GrantLoop(loadPermissions(userID), scope, <<>>)
    IN  /\ IF scope = <<>>
           THEN /\ Return("Grant", scope, userID, FALSE, ErrEmptyScope)
                /\ UNCHANGED store
           ELSE IF memory = "Get"
           THEN /\ Return("Grant", scope, userID, FALSE, ErrLoad)
                /\ UNCHANGED store
           ELSE IF loop.held
           THEN /\ Return("Grant", scope, userID, FALSE, NoError)
                /\ UNCHANGED store
           ELSE IF memory = "Set"
           THEN /\ Return("Grant", scope, userID, TRUE, ErrUpdate)
                /\ UNCHANGED store
           ELSE /\ updatePermissions(userID,
                                     Append(loop.permissions, scope))
                /\ Return("Grant", scope, userID, TRUE, NoError)
        /\ UNCHANGED <<registryVars, passVars, failVars, botVars, adapterVars,
                       payloadVars,
                       brainVars,
                       queueVars, loopVars, emitVars, shutVars, panicked,
                       histVars>>

\* Auth.Grant
Grant(scope, userID) == GrantOn(scope, userID, "ok")

\* faulty variant of MoreGeneral: a more general scope is not looked for
MoreGeneralNever(scope, p) == FALSE

\* Revoke, `strings.HasPrefix(scope, p)`
MoreGeneral(scope, p) == HasPrefix(scope, p)

RECURSIVE RevokeLoop(_, _, _, _)
\* the `range oldPermissions` loop of Revoke
RevokeLoop(old, scope, revoked, new) ==
    IF old = <<>>
    THEN [revoked |-> revoked, permissions |-> new, err |-> NoError]
    ELSE IF Head(old) = scope
    THEN RevokeLoop(Tail(old), scope, TRUE, new)
    ELSE IF MoreGeneral(scope, Head(old))
    THEN [revoked |-> FALSE, permissions |-> new, err |-> ErrMoreGeneral]
    ELSE RevokeLoop(Tail(old), scope, revoked, Append(new, Head(old)))

\* faulty variant of DeleteKey: the key is kept with an empty list
KeepKey(userID) ==
    store' = [store EXCEPT ![userID] = [ok |-> TRUE, permissions |-> <<>>]]

\* `a.store.Delete(key)`
DeleteKey(userID) == store' = [store EXCEPT ![userID] = NoPermissions]

\* Auth.Revoke on a Memory whose operation `memory` fails
RevokeOn(scope, userID, memory) ==
    LET old == loadPermissions(userID)
        loop == RevokeLoop(old, scope, FALSE, <<>>)
    IN  /\ IF scope = <<>>
           THEN /\ Return("Revoke", scope, userID, FALSE, ErrEmptyScope)
                /\ UNCHANGED store
           ELSE IF memory = "Get"
           THEN /\ Return("Revoke", scope, userID, FALSE, ErrLoad)
                /\ UNCHANGED store
           ELSE IF Len(old) = 0
           THEN /\ Return("Revoke", scope, userID, FALSE, NoError)
                /\ UNCHANGED store
           ELSE IF loop.err # NoError
           THEN /\ Return("Revoke", scope, userID, FALSE, loop.err)
                /\ UNCHANGED store
           ELSE IF ~loop.revoked
           THEN /\ Return("Revoke", scope, userID, FALSE, NoError)
                /\ UNCHANGED store
           ELSE IF Len(loop.permissions) = 0
           THEN IF memory = "Delete"
                THEN /\ Return("Revoke", scope, userID, FALSE, ErrDelete)
                     /\ UNCHANGED store
                ELSE /\ DeleteKey(userID)
                     /\ Return("Revoke", scope, userID, TRUE, NoError)
           ELSE IF memory = "Set"
           THEN /\ Return("Revoke", scope, userID, TRUE, ErrUpdate)
                /\ UNCHANGED store
           ELSE /\ updatePermissions(userID, loop.permissions)
                /\ Return("Revoke", scope, userID, TRUE, NoError)
        /\ UNCHANGED <<registryVars, passVars, failVars, botVars, adapterVars,
                       payloadVars,
                       brainVars,
                       queueVars, loopVars, emitVars, shutVars, panicked,
                       histVars>>

\* Auth.Revoke
Revoke(scope, userID) == RevokeOn(scope, userID, "ok")

\* The methods of Auth, called one after the other on a store that holds
\* no permissions at first.
NextAuth ==
    \/ \E scope \in Scopes : \E userID \in Users : Grant(scope, userID)
    \/ \E scope \in Scopes : \E userID \in Users : Revoke(scope, userID)
    \/ \E scope \in Scopes : \E userID \in Users :
          CheckPermission(scope, userID)

SpecAuth == Init /\ [][NextAuth]_vars

\* Auth.CheckPermission on a Memory whose Get fails
CheckPermissionFails(scope, userID) ==
    /\ Return("CheckPermission", scope, userID, FALSE, ErrLoad)
    /\ UNCHANGED <<store, registryVars, passVars, failVars, botVars,
                   adapterVars, payloadVars,
                   brainVars, queueVars, loopVars, emitVars, shutVars,
                   panicked, histVars>>

\* The methods of Auth on a Memory any of whose operations may return an
\* error; a failed operation leaves the stored permissions as they were.
NextAuthMemory ==
    \/ \E scope \in Scopes : \E userID \in Users :
          \E memory \in MemoryOutcomes : GrantOn(scope, userID, memory)
    \/ \E scope \in Scopes : \E userID \in Users :
          \E memory \in MemoryOutcomes : RevokeOn(scope, userID, memory)
    \/ \E scope \in Scopes : \E userID \in Users :
          CheckPermission(scope, userID)
    \/ \E scope \in Scopes : \E userID \in Users :
          CheckPermissionFails(scope, userID)

SpecAuthMemory == Init /\ [][NextAuthMemory]_vars

\* what leaves the CLIAdapter alone leaves the rest of the bot alone
CLIFrame ==
    UNCHANGED <<registryVars, passVars, failVars, botVars, authVars,
                payloadVars, brainVars, queueVars, loopVars, emitVars,
                shutVars, panicked, histVars>>

\* print, `if a.closing == nil { return errors.New(...) }`: the function
\* returns with a.mu still locked
PrintClosed(c) ==
    cli' = [cli EXCEPT !.mu = TRUE, !.pc[c] = "idle",
                       !.last[c] = [op |-> "Send", err |-> ErrAdapterClosed]]

\* CLIAdapter.Send is called: the goroutine goes on to a.mu.Lock() of print
CLISend(c) ==
    /\ cli.pc[c] = "idle"
    /\ cli.calls < MaxCalls
    /\ cli' = [cli EXCEPT !.pc[c] = "print", !.after[c] = cli.closed,
                          !.calls = @ + 1]
    /\ CLIFrame

\* CLIAdapter.print for Send, from a.mu.Lock() to its return
CLIPrint(c) ==
    /\ cli.pc[c] = "print"
    /\ ~cli.mu
    /\ IF ~cli.closing
       THEN PrintClosed(c)
       ELSE cli' = [cli EXCEPT !.output = Append(@, "text"),
                               !.pc[c] = "idle",
                               !.last[c] = [op |-> "Send", err |-> NoError]]
    /\ CLIFrame

\* CLIAdapter.Close up to `a.closing <- callback`
CLIClose(c) ==
    /\ cli.pc[c] = "idle"
    /\ cli.calls < MaxCalls
    /\ IF ~cli.closing
       THEN cli' = [cli EXCEPT !.after[c] = cli.closed, !.calls = @ + 1,
                        !.last[c] = [op |-> "Close", err |-> ErrAlreadyClosed]]
       ELSE cli' = [cli EXCEPT !.after[c] = cli.closed, !.calls = @ + 1,
                               !.pc[c] = "closing"]
    /\ CLIFrame

\* CLIAdapter.loop, `case msg, ok := <-lines`: a line is emitted and the
\* loop waits for the callback
CLILoopLine ==
    /\ cli.loop = "select"
    /\ cli.lines
    /\ cli.calls < MaxCalls
    /\ cli' = [cli EXCEPT !.lines = FALSE, !.calls = @ + 1]
    /\ CLIFrame

\* CLIAdapter.loop, `case <-callback`
CLILoopCallback ==
    /\ cli.loop = "select"
    /\ ~cli.lines
    /\ ~cli.mu
    /\ cli' = [cli EXCEPT !.output = Append(@, "prefix"), !.lines = TRUE]
    /\ CLIFrame

\* CLIAdapter.loop, `case result := <-a.closing`, with the receive of the
\* result in Close: the loop prints and returns, Close goes on to a.mu.Lock()
CLILoopClosing(c) ==
    /\ cli.loop = "select"
    /\ cli.pc[c] = "closing"
    /\ ~cli.mu
    /\ cli' = [cli EXCEPT !.output = IF cli.lines
                                     THEN Append(@, "newline")
                                     ELSE @ \o <<"prefix", "newline">>,
                          !.loop = "returned",
                          !.pc[c] = "lock"]
    /\ CLIFrame

\* CLIAdapter.Close from a.mu.Lock() to its return
CLICloseMark(c) ==
    /\ cli.pc[c] = "lock"
    /\ ~cli.mu
    /\ cli' = [cli EXCEPT !.closing = FALSE, !.pc[c] = "idle",
                          !.last[c] = [op |-> "Close", err |-> NoError],
                          !.closed = TRUE, !.closedOutput = cli.output]
    /\ CLIFrame

\* A CLIAdapter registered at a brain, and goroutines that call its Send
\* and Close.
NextCLI ==
    \/ \E c \in CLICallers : CLISend(c)
    \/ \E c \in CLICallers : CLIPrint(c)
    \/ \E c \in CLICallers : CLIClose(c)
    \/ CLILoopLine
    \/ CLILoopCallback
    \/ \E c \in CLICallers : CLILoopClosing(c)
    \/ \E c \in CLICallers : CLICloseMark(c)

SpecCLI == Init /\ [][NextCLI]_vars

\* Handler i, while it runs, assigns to the String field of the event it
\* was called with.
HandlerAssigns(i) ==
    /\ Alive
    /\ i \in 1..Len(hstatus)
    /\ hstatus[i] = "running"
    /\ payload.args[i].String = Emitted.String
    /\ payload' = Assign(payload, i)
    /\ UNCHANGED <<registryVars, passVars, failVars, botVars, authVars,
                   adapterVars, brainVars, queueVars, loopVars, emitVars,
                   shutVars, panicked, histVars>>

\* Handler i, while it runs, changes the data the Items field of the event
\* refers to (`evt.Items[0] = "bar"`).
HandlerAssignsItem(i) ==
    /\ Alive
    /\ i \in 1..Len(hstatus)
    /\ hstatus[i] = "running"
    /\ payload.cell = Emitted.Items
    /\ payload' = [payload EXCEPT !.cell = "bar"]
    /\ UNCHANGED <<registryVars, passVars, failVars, botVars, authVars,
                   adapterVars, brainVars, queueVars, loopVars, emitVars,
                   shutVars, panicked, histVars>>

\* A brain whose handlers change the event they are called with.
NextPayload ==
    \/ NextDispatch
    \/ \E i \in 1..MaxHandlers : HandlerAssigns(i)
    \/ \E i \in 1..MaxHandlers : HandlerAssignsItem(i)

SpecPayload == InitDispatch /\ [][NextPayload]_vars

CallbackPanic == "panic in a callback"

\* `callback(evt)` is called and never returns: handleEvent, and with it
\* the loop of HandleEvents, stays in the call
CallbackHangs ==
    /\ Alive
    /\ pcL = "callbacks"
    /\ Len(cbLog) < Callbacks(cur)
    /\ pcL' = "inCallback"
    /\ payload' = [payload EXCEPT !.cbSeen = Append(@, View(payload))]
    /\ UNCHANGED <<registryVars, botVars, authVars, adapterVars, passVars,
                   failVars, brainVars, queueVars, cur, shutdownReq,
                   emitVars, shutVars, panicked, histVars>>

\* `callback(evt)` panics: handleEvent has no recover around the call, the
\* panic leaves the goroutine of HandleEvents and ends the program
CallbackPanics ==
    /\ Alive
    /\ pcL = "callbacks"
    /\ Len(cbLog) < Callbacks(cur)
    /\ panicked' = CallbackPanic
    /\ UNCHANGED <<hVars, brainVars, queueVars, loopVars, emitVars, shutVars,
                   histVars>>

\* A brain with the default handlerTimeout whose callbacks may hang or
\* panic, and a Shutdown call whose ctx is never cancelled.
NextCallbacks ==
    \/ \E sh \in Shapes : RegisterHandler(sh)
    \/ \E p \in Producers : EmitCall(p)
    \/ \E p \in Producers : QueueAccept(p)
    \/ QueueInputClosed
    \/ QueueCloseLoop
    \/ HandleEventsCall
    \/ LoopStore
    \/ LoopInit
    \/ LoopTake
    \/ LoopClosed
    \/ HandleEventStep
    \/ HandlerStep
    \/ CallbackHangs
    \/ CallbackPanics
    \/ \E s \in Callers \ Cancellable : LoopRecvShutdown(s)
    \/ LoopCloseInput
    \/ LoopStoreZero
    \/ LoopCallback
    \/ \E s \in Callers \ Cancellable : ShutdownCall(s)
    \/ \E s \in Callers \ Cancellable : ShutdownCheck(s)
    \/ \E s \in Callers \ Cancellable : ShutdownCloseInput(s)
    \/ \E s \in Callers \ Cancellable : ShutdownDrain(s)
    \/ \E s \in Callers \ Cancellable : ShutdownDrained(s)

SpecCallbacks == Init /\ [][NextCallbacks]_vars

\* A bot whose handler functions may also return an error or panic.
NextFailures ==
    \/ \E sh \in Shapes : RegisterHandler(sh)
    \/ \E p \in Producers : EmitCall(p)
    \/ \E p \in Producers : QueueAccept(p)
    \/ HandleEventsCall
    \/ LoopStore
    \/ LoopInit
    \/ LoopTake
    \/ HandleEventStep
    \/ HandlerStep
    \/ \E i \in 1..MaxHandlers : \E f \in Faults :
          i <= Len(hh) /\ HandlerFails(i, f)

SpecFailures == InitDispatch /\ [][NextFailures]_vars

\* A brain with handlers of interface{} (as joetest.NewBrain registers
\* one) that is shut down with a ctx that may be cancelled.
NextShutdownCtx ==
    \/ RegisterHandler("Any")
    \/ \E p \in Producers : nEmit[p] < MaxMessages /\ EmitCall(p)
    \/ \E p \in Producers : EmitPanic(p)
    \/ \E p \in Producers : QueueAccept(p)
    \/ QueueInputClosed
    \/ QueueCloseLoop
    \/ HandleEventsCall
    \/ LoopStore
    \/ LoopInit
    \/ LoopTake
    \/ LoopClosed
    \/ HandleEventStep
    \/ HandlerCtxDone
    \/ HandlerStep
    \/ \E s \in Cancellable : LoopRecvShutdown(s)
    \/ LoopCloseInput
    \/ LoopStoreZero
    \/ LoopCallback
    \/ \E s \in Cancellable : ShutdownCall(s)
    \/ \E s \in Cancellable : ShutdownStep(s)
    \/ \E s \in Cancellable : CancelCtx(s)

SpecShutdownCtx == InitDispatch /\ [][NextShutdownCtx]_vars

\* ------------------------------------------------------------- properties
\* the producer events the dispatch loop took off b.eventsLoop, in order
Taken == SelectSeq(started, IsProducerEvent)

\* the events of the Emit calls that have returned at the isClosed check
Dropped ==
    {e \in Emitters \X (1..MaxEmit) :
        /\ e[2] <= nEmit[e[1]]
        /\ e \notin Range(accepted)
        /\ ~(pcE[e[1]] = "send" /\ e[2] = nEmit[e[1]])}

\* C1: the producer events taken up by the dispatch loop are a prefix of
\* the events in the order the queue accepted them (nothing is reordered,
\* duplicated or skipped).
C1_TakenIsPrefixOfAccepted == IsPrefix(Taken, accepted)

C3_ShutdownEventLast ==
    \A i \in 1..Len(started) :
        started[i] = ShutdownEvent
        => /\ i = Len(started)
           /\ Range(accepted) \subseteq Range(finished)

\* C4: no producer event is dispatched before the dispatch of the
\* InitEvent has ended, also for events queued before HandleEvents ran.
C4_InitEventFirst ==
    \A i \in 1..Len(started) :
        IsProducerEvent(started[i])
        => /\ i > 1
           /\ started[1] = InitEvent
           /\ InitEvent \in Range(finished)

C4_Witness ==
    /\ queuedAtStart
    /\ accepted[1] \in Range(finished)

\* C5: an Emit called after a Shutdown call has returned returns at once:
\* it does not block, does not panic, enqueues nothing, and its event is
\* never dispatched.
C5_EmitAfterShutdownIsNoOp ==
    /\ [][(\E s \in Callers : pcS[s] = "returned")
          => \A p \in Emitters :
                nEmit'[p] # nEmit[p]
                => /\ pcE'[p] = "idle"
                   /\ panicked' = NoPanic
                   /\ UNCHANGED <<queue, accepted, started, finished>>]_vars
    /\ [](Dropped \cap Range(started) = {})

C5_Witness ==
    /\ lateEmit
    /\ \E p \in Emitters : nEmit[p] = MaxEmit /\ Event(p, MaxEmit) \in Dropped

\* C6: Emit never panics: no Emit sends on b.eventsInput after the channel
\* has been closed.
C6_EmitNeverPanics == panicked # SendOnClosed

\* C7: before shutdown is requested an Emit that has reached its send is
\* never kept waiting: the queue goroutine can receive it at once, whatever
\* the dispatch loop is doing and however many events are queued.
C7_EmitNeverWaitsForLoop ==
    \A p \in Emitters :
        (pcE[p] = "send" /\ closed = 0) => ENABLED QueueAccept(p)

C7_Witness ==
    /\ pcE[HandlerProducer] = "send"
    /\ pcL = "handlers"
    /\ closed = 0
    /\ Len(queue) >= 2

\* C8: b.eventsInput is closed at most once and the loop receives at most
\* one shutdown request, so no close of a closed channel ever happens.
C8_InputClosedAtMostOnce ==
    /\ closeCalls <= 1
    /\ nReq <= 1
    /\ panicked # CloseOfClosed

C8_Witness ==
    /\ \A s \in Callers : pcS[s] = "returned"
    /\ closeCalls = 1
    /\ nReq = 1

C9_ShutdownWithoutStartReturns ==
    \A s \in Callers : (pcS[s] # "idle") ~> (pcS[s] = "returned")

C9_Witness ==
    /\ \A s \in Callers : pcS[s] = "returned" /\ ~ctxDone[s]
    /\ pcL = "idle"
    /\ Len(accepted) = MaxEmit
    /\ loopClosed

\* ------------------------------------------- properties of the handler pass
\* The steps the goroutines of the brain and the Shutdown calls can take by
\* themselves: everything but the calls made from outside (Emit,
\* HandleEvents, Shutdown, cancelling a ctx, registering) and the steps of
\* the handler functions, which may never come.
BrainStep ==
    \/ \E p \in Producers : EmitPanic(p)
    \/ \E p \in Producers : QueueAccept(p)
    \/ QueueInputClosed
    \/ QueueCloseLoop
    \/ LoopStore
    \/ LoopInit
    \/ LoopTake
    \/ LoopClosed
    \/ HandleEventStep
    \/ HandlerCtxDone
    \/ \E s \in Callers : LoopRecvShutdown(s)
    \/ LoopCloseInput
    \/ LoopStoreZero
    \/ LoopCallback
    \/ \E s \in Callers : ShutdownStep(s)

\* no goroutine of the brain and no Shutdown call can take a step
AtRest == ~ENABLED BrainStep

\* C11: when HandleEvents was running at the Shutdown call, the ctx of the
\* call is cancelled and nothing can move any more unless a handler
\* function returns, the Shutdown call has returned.
C11_ShutdownReturnsOnCancelledCtx ==
    \A s \in Cancellable :
        (/\ Alive
         /\ winner = s
         /\ winnerInfo.handling
         /\ ctxDone[s]
         /\ AtRest) => pcS[s] = "returned"

\* ------------------------------------------ properties of the life cycle
\* The steps the goroutines of the brain and the Shutdown calls can take by
\* themselves when every handler pass and every callback comes to an end.
LifecycleStep ==
    \/ \E p \in Emitters : EmitPanic(p)
    \/ \E p \in Emitters : QueueAccept(p)
    \/ QueueInputClosed
    \/ QueueCloseLoop
    \/ LoopStore
    \/ LoopInit
    \/ LoopTake
    \/ LoopClosed
    \/ LoopHandlersDone
    \/ LoopCallbacksDone
    \/ \E s \in Callers : LoopRecvShutdown(s)
    \/ LoopCloseInput
    \/ LoopStoreZero
    \/ LoopCallback
    \/ \E s \in Callers : ShutdownStep(s)

\* C12: when HandleEvents has been called, a Shutdown call has returned and
\* no goroutine of the brain can take a step any more, HandleEvents has
\* returned.
C12_HandleEventsReturnsAfterShutdown ==
    (/\ Alive
     /\ pcL # "idle"
     /\ \E s \in Callers : pcS[s] = "returned"
     /\ ~ENABLED LifecycleStep) => pcL = "returned"

\* C13: once the Shutdown call that closed the brain has returned, its ctx
\* never cancelled, no step enters handleEvent (no handler is started) and
\* no step goes on to the callbacks of an event.
C13_NoDispatchAfterShutdown ==
    [][(\E s \in Callers : /\ winner = s
                           /\ pcS[s] = "returned"
                           /\ ~ctxDone[s])
         => /\ started' = started
            /\ (pcL' = "callbacks" => pcL = "callbacks")]_vars

\* ------------------------------------------ properties of the dispatch
\* the entries of hh whose handler has been invoked for the current event;
\* executeEventHandler starts them one after the other, in the order of hh
Invoked == {i \in 1..Len(hh) : hstatus[i] # "none"}

\* C14: of two handlers registered for the same parameter type, the one
\* registered later is invoked only after the one registered earlier, for
\* every dispatched event.
C14_SameTypeInRegistrationOrder ==
    \A i \in 1..Len(hh) : \A j \in Invoked :
        (i < j /\ hh[i].type = hh[j].type)
            => (hh[i].id < hh[j].id /\ i \in Invoked)

C14_Witness ==
    \E i \in Invoked : \E j \in Invoked :
        /\ i < j
        /\ hh[i].type = hh[j].type
        /\ IsProducerEvent(cur)

\* C15: all handlers that match an event are invoked in the order of their
\* registration, whatever their parameter types are.
C15_AllInRegistrationOrder ==
    \A i \in 1..Len(hh) : \A j \in Invoked :
        i < j => hh[i].id < hh[j].id

\* C16: when the handler pass of an event has ended and no handler has
\* aborted it, the handlers invoked are exactly the registered handlers
\* whose parameter type is the type of the event or the interface type
\* interface{}, each of them once.
C16_ExactlyTheMatchingHandlers ==
    (pcL = "callbacks" /\ ~abortEarly) =>
        /\ {hh[i] : i \in Invoked}
             = {h \in UNION {Range(handlers[sh]) : sh \in Shapes} :
                  h.type = TypeOf(cur) \/ h.type = "Any"}
        /\ Invoked = 1..Len(hh)
        /\ \A i \in 1..Len(hh) : \A j \in 1..Len(hh) :
              hh[i] = hh[j] => i = j

C16_Witness ==
    /\ pcL = "callbacks"
    /\ ~abortEarly
    /\ Len(hh) = 1
    /\ hh[1].type = "Any"
    /\ handlers["ReceiveMessageEvent"] # <<>>
    /\ cur = InitEvent

\* C17 as claimed: once a handler has called FinishEventContent, no handler
\* that was registered after it for the same parameter type is invoked for
\* the event.
C17_NoHandlerAfterFinishEventContent ==
    \A i \in abortBy : \A j \in 1..Len(hh) :
        (i < j /\ hh[i].type = hh[j].type) => j \notin Invoked

\* C17: when a handler has called FinishEventContent and returned while
\* the loop waited for it, no handler after it is invoked for the event,
\* the loop goes on to the callbacks, and every callback of the event
\* runs.
C17_AbortEarlySkipsRest ==
    /\ \A i \in AbortSeen : \A j \in 1..Len(hh) : i < j => j \notin Invoked
    /\ AbortSeen # {} => pcL \in {"check", "callbacks"}
    /\ \A k \in 1..Len(cbCounts) :
          k <= Len(finished) /\ cbCounts[k] = Callbacks(finished[k])

C17_Witness ==
    /\ pcL = "callbacks"
    /\ cbLog # <<>>
    /\ \E i \in AbortSeen :
          /\ i < Len(hh)
          /\ hh[i].type = hh[i + 1].type
          /\ hh[i].expr = NoPattern

\* C18: when the handler pass of a message has ended whose handlers were
\* all registered through Bot.Respond, and every handler that was invoked
\* has returned, every handler whose pattern matches the text has been
\* invoked.
C18_AllMatchingPatternsRun ==
    (/\ pcL = "callbacks"
     /\ \A i \in 1..Len(hh) : hh[i].expr # NoPattern
     /\ \A i \in Invoked : hstatus[i] = "done")
        => \A i \in 1..Len(hh) : RespondMatch(hh[i]) => i \in Invoked

\* C19: the callbacks of an event are invoked one after the other in the
\* order given to Emit, each once, only after the `range handlers` loop
\* has ended (run through, or left at the AbortEarly check), and every
\* finished event has had all of them invoked.
C19_CallbacksOnceInOrderAfterPass ==
    /\ cbLog = [k \in 1..Len(cbLog) |-> k]
    /\ Len(cbLog) <= Callbacks(cur)
    /\ cbLog # <<>> => pcL = "callbacks"
    /\ pcL = "callbacks" => (hi > Len(hh) \/ abortEarly)
    /\ Len(cbCounts) = Len(finished)
    /\ \A k \in 1..Len(cbCounts) : cbCounts[k] = Callbacks(finished[k])

C19_Witness ==
    /\ Len(cbLog) = 2
    /\ Len(hh) = 2
    /\ hstatus[1] = "running"
    /\ hstatus[2] = "done"
    /\ ~abortEarly

\* entries of hh whose result the loop has received and whose function
\* ended as f
Received(f) == {i \in 1..Len(hh) : hstatus[i] = "done" /\ FaultOf(i) = f}

\* the errors logged for entry i of hh while handling the current event
LoggedFor(i) ==
    {logged[k][2] : k \in {j \in 1..Len(logged) : logged[j][1] = i}}

\* C21: a handler that panicked, and whose result the dispatch loop has
\* received, is logged with the error "handler panic: <value>".
C21_PanicLoggedAsHandlerPanic ==
    \A i \in Received("panic") \cup Received("panic(nil)") :
        HandlerPanic(PanicValue(FaultOf(i))) \in LoggedFor(i)

\* The steps the goroutines of the brain take on their own, that is without
\* a handler function doing anything.
DispatchStep ==
    \/ \E p \in Producers : QueueAccept(p)
    \/ LoopStore
    \/ LoopInit
    \/ LoopTake
    \/ HandleEventStep

\* the positions of the loop inside handleEvent
InHandleEvent == {"handlers", "range", "wait", "check", "callbacks"}

\* entries of hh the loop has stopped waiting for before they returned
GivenUp ==
    {i \in Invoked : hstatus[i] # "done" /\ (i < hi \/ pcL # "wait")}

\* C22: with a positive handlerTimeout the loop is never stuck inside
\* handleEvent, whatever the handler functions do; a handler it has stopped
\* waiting for is logged with the timeout error; unless FinishEventContent
\* was called all handlers of the event have been invoked when the callbacks
\* run; and when the loop can do nothing more, every accepted event has
\* been handled.
C22_TimeoutKeepsLoopGoing ==
    handlerTimeout > NoTimeout =>
        /\ pcL \in InHandleEvent => ENABLED HandleEventStep
        /\ \A i \in GivenUp : DeadlineExceeded \in LoggedFor(i)
        /\ (pcL = "callbacks" /\ abortBy = {}) => Invoked = 1..Len(hh)
        /\ (handlingEvents = 1 /\ ~ENABLED DispatchStep)
              => finished = <<InitEvent>> \o accepted

\* A first handler never returned, the loop has given it up, invoked the
\* second handler and reached the callbacks.
C22_Witness ==
    /\ handlerTimeout > NoTimeout
    /\ pcL = "callbacks"
    /\ Len(hh) = 2
    /\ 1 \in GivenUp
    /\ hstatus[1] = "running"
    /\ hstatus[2] # "none"
    /\ Len(finished) >= 1

\* The functions the specification of RegisterHandler calls valid: one or
\* two parameters, of two the first a context.Context and the second not,
\* the last parameter no pointer, no result or one result that is an error.
ValidHandler(fun) ==
    /\ fun.kind = "func"
    /\ fun.numIn \in {1, 2}
    /\ fun.numIn = 2 =>
          ImplementsContext(fun.in0) /\ ~ImplementsContext(fun.in1)
    /\ KindOf(IF fun.numIn = 2 THEN fun.in1 ELSE fun.in0) # "ptr"
    /\ \/ fun.numOut = 0
       \/ fun.numOut = 1 /\ ImplementsError(fun.out0)

\* C23: a call of RegisterHandler adds a handler if and only if its argument
\* is a valid function, and records a registration error for every other
\* argument.
C23_AcceptsExactlyValidFunctions ==
    [][\A fun \in Values :
         RegisterHandlerFun(fun) =>
           /\ (nHandlers' = nHandlers + 1) <=> ValidHandler(fun)
           /\ ~ValidHandler(fun) =>
                 Len(registrationErrs') = Len(registrationErrs) + 1]_vars

\* the handler a successful registration adds
NewHandler(t) == [id |-> nHandlers + 1, type |-> t, expr |-> NoPattern]

\* C24: a call of RegisterHandler does not panic and either appends the
\* function to the handlers of its event type, leaving the other handlers
\* and the registration errors as they are, or leaves the handlers as they
\* are and appends one registration error to the earlier ones.
C24_RegistersOrRecordsOneError ==
    [][\A fun \in Values :
         RegisterHandlerFun(fun) =>
           /\ panicked' = NoPanic
           /\ \/ /\ \E t \in HandlerTypes :
                       /\ t = (IF fun.numIn = 2 THEN fun.in1 ELSE fun.in0)
                       /\ handlers' =
                            [handlers EXCEPT ![t] = Append(@, NewHandler(t))]
                 /\ registrationErrs' = registrationErrs
              \/ /\ handlers' = handlers
                 /\ Len(registrationErrs') = Len(registrationErrs) + 1
                 /\ SubSeq(registrationErrs', 1, Len(registrationErrs))
                      = registrationErrs]_vars

\* C25: when Bot.Run was called with at least one registration error
\* recorded, it has returned an error, Adapter.RegisterAt was not called,
\* HandleEvents was not called and no event has been dispatched.
C25_RunReturnsOnRegistrationErrors ==
    bot.errsAtRun > 0 =>
        /\ bot.pc = "returned"
        /\ bot.err # NoError
        /\ ~bot.registeredAt
        /\ pcL = "idle"
        /\ started = <<>>

\* Run was called on a bot whose modules did not fail, with two
\* registration errors recorded.
C25_Witness ==
    /\ ~bot.initErr
    /\ bot.pc = "returned"
    /\ bot.errsAtRun = 2
    /\ bot.err = <<"invalid event handlers">>

\* ------------------------------------------------------ properties of Auth
\* the scopes stored for a user
Stored(u) == Range(store[u].permissions)

\* the user holds the scope: a stored scope is a prefix of it
Holds(u, scope) == \E p \in Stored(u) : IsPrefix(p, scope)

\* how often a scope is in a list of permissions
Count(permissions, scope) ==
    Cardinality({i \in 1..Len(permissions) : permissions[i] = scope})

\* C26: Grant of a scope the user holds, itself or through a broader scope,
\* returns false without an error and leaves the store as it is; a scope
\* granted again is stored once.
C26_GrantIsIdempotent ==
    [][\A scope \in Scopes : \A u \in Users :
         (Grant(scope, u) /\ Holds(u, scope)) =>
           /\ ~ret'.ok
           /\ ret'.err = NoError
           /\ store' = store
           /\ scope \in Stored(u) =>
                 Count(store'[u].permissions, scope) = 1]_vars

\* The last call granted a scope that is stored for the user, next to
\* another scope, and returned false.
C26_Witness ==
    /\ ret.op = "Grant"
    /\ ~ret.ok
    /\ ret.err = NoError
    /\ ret.scope \in Stored(ret.user)
    /\ Len(store[ret.user].permissions) = 2

\* what C27 says of a Grant of scope to u that is not held yet
GrantAdds(scope, u) ==
    /\ ret'.ok
    /\ ret'.err = NoError
    /\ Count(store'[u].permissions, scope) = 1
    /\ \A p \in Scopes \ {scope} :
          Count(store'[u].permissions, p) =
            IF IsPrefix(scope, p) THEN 0
            ELSE Count(store[u].permissions, p)
    /\ \A v \in Users \ {u} : store'[v] = store[v]

\* C27 as stated: Grant of any scope no prefix of which is held removes
\* the stored scopes it is a prefix of, keeps the others, adds the scope
\* once and returns true.
C27_GrantOfAnyScopeSubsumes ==
    [][\A scope \in Scopes : \A u \in Users :
         (Grant(scope, u) /\ ~Holds(u, scope)) => GrantAdds(scope, u)]_vars

\* C27: Grant of a scope that is not empty and no prefix of which is held
\* removes the stored scopes it is a prefix of, keeps the others, adds the
\* scope once and returns true; Grant of the empty scope returns false with
\* an error and leaves the store as it is.
C27_GrantSubsumes ==
    [][\A scope \in Scopes : \A u \in Users :
         (Grant(scope, u) /\ ~Holds(u, scope)) =>
           IF scope # <<>> THEN GrantAdds(scope, u)
           ELSE ~ret'.ok /\ ret'.err = ErrEmptyScope /\ store' = store]_vars

\* The last call granted a scope in place of two narrower ones and kept a
\* third scope.
C27_Witness ==
    /\ ret.op = "Grant"
    /\ ret.ok
    /\ ret.scope = <<"a", ".", "b">>
    /\ store[ret.user].permissions = <<<<"a", ".", "c">>, <<"a", ".", "b">>>>

\* C28: CheckPermission returns nil if a stored scope of the user is a prefix
\* of the scope asked for and ErrNotAllowed if not; it returns ErrNotAllowed
\* for a user without permissions and for the empty scope.
C28_CheckPermissionIsPrefixTest ==
    ret.op = "CheckPermission" =>
        /\ ret.err = (IF Holds(ret.user, ret.scope)
                      THEN NoError ELSE ErrNotAllowed)
        /\ Stored(ret.user) = {} => ret.err = ErrNotAllowed
        /\ ret.scope = <<>> => ret.err = ErrNotAllowed

\* The last call allowed a scope through the second stored scope, which is
\* a proper prefix of it.
C28_Witness ==
    /\ ret.op = "CheckPermission"
    /\ ret.err = NoError
    /\ ret.scope = <<"a", ".", "b", ".", "c">>
    /\ store[ret.user].permissions = <<<<"a", ".", "c">>, <<"a", ".", "b">>>>

\* what C29 says of a Revoke of a scope that is stored for u
RevokeRemoves(scope, u) ==
    /\ ret'.ok
    /\ ret'.err = NoError
    /\ Count(store'[u].permissions, scope) = 0
    /\ \A p \in Scopes \ {scope} :
          Count(store'[u].permissions, p) = Count(store[u].permissions, p)
    /\ store'[u].ok = (Stored(u) # {scope})
    /\ \A v \in Users \ {u} : store'[v] = store[v]

\* C29 as stated: Revoke of a stored scope removes it and nothing else,
\* returns true and deletes the key with the last scope; Revoke of any
\* scope that is not held returns (false, nil) and changes nothing.
C29_RevokeOfAnyScope ==
    [][\A scope \in Scopes : \A u \in Users :
         Revoke(scope, u) =>
           /\ scope \in Stored(u) => RevokeRemoves(scope, u)
           /\ ~Holds(u, scope) =>
                 ~ret'.ok /\ ret'.err = NoError /\ store' = store]_vars

\* C29: Revoke of a stored scope removes it and nothing else, returns true
\* and deletes the key with the last scope; Revoke of a scope that is not
\* empty and not held returns (false, nil) and changes nothing; Revoke of
\* the empty scope returns false with an error and changes nothing.
C29_RevokeRemovesExactlyTheScope ==
    [][\A scope \in Scopes : \A u \in Users :
         Revoke(scope, u) =>
           /\ scope \in Stored(u) => RevokeRemoves(scope, u)
           /\ ~Holds(u, scope) =>
                 /\ ~ret'.ok
                 /\ store' = store
                 /\ ret'.err = (IF scope = <<>> THEN ErrEmptyScope
                                ELSE NoError)]_vars

\* The last call revoked the last scope of a user and the key is gone.
C29_Witness ==
    /\ ret.op = "Revoke"
    /\ ret.ok
    /\ store[ret.user] = NoPermissions
    /\ \E v \in Users : store[v].ok

\* C30: Revoke of a scope of which the user holds a proper prefix returns
\* false with an error and leaves the store as it is.
C30_RevokeUnderBroaderScopeFails ==
    [][\A scope \in Scopes : \A u \in Users :
         (/\ Revoke(scope, u)
          /\ \E p \in Stored(u) : p # scope /\ IsPrefix(p, scope)) =>
           /\ ~ret'.ok
           /\ ret'.err # NoError
           /\ store' = store]_vars

\* The last call tried to revoke a scope below the second stored scope.
C30_Witness ==
    /\ ret.op = "Revoke"
    /\ ~ret.ok
    /\ ret.err = ErrMoreGeneral
    /\ ret.scope = <<"a", ".", "b", "c">>
    /\ store[ret.user].permissions = <<<<"a", ".", "c">>, <<"a", ".", "b">>>>

\* C39: the scopes stored for a user hold no scope twice and no scope that
\* is a prefix of another stored scope of the same user.
C39_StoredScopesIndependent ==
    \A u \in Users :
        LET permissions == store[u].permissions
        IN  \A i, j \in 1..Len(permissions) :
                i # j => ~IsPrefix(permissions[i], permissions[j])

\* two scopes are stored for one user, the later one by the last Grant
C39_Witness ==
    \E u \in Users :
        /\ Len(store[u].permissions) = 2
        /\ ret.op = "Grant" /\ ret.ok /\ ret.user = u
        /\ ret.scope = store[u].permissions[2]

\* C40: whatever CheckPermission allowed a user before a Grant call for
\* that user, it still allows after the call.
C40_GrantKeepsAccess ==
    [][\A scope \in Scopes : \A u \in Users :
          Grant(scope, u) =>
              \A s \in Scopes : Holds(u, s) => Holds(u, s)']_vars

\* "a.c" was granted to a user who held "a.b", and the user still passes
\* the check of "a.b.c"
C40_Witness ==
    \E u \in Users :
        /\ ret.op = "Grant" /\ ret.ok /\ ret.user = u
        /\ ret.scope = <<"a", ".", "c">>
        /\ store[u].permissions = << <<"a", ".", "b">>, ret.scope >>
        /\ Holds(u, <<"a", ".", "b", ".", "c">>)

\* C31: Grant and Revoke return true only when the stored permissions
\* were changed by the call, also when an operation of the Memory fails.
C31_TrueOnlyWhenStoreChanged ==
    [][\A scope \in Scopes : \A u \in Users : \A memory \in MemoryOutcomes :
          (GrantOn(scope, u, memory) \/ RevokeOn(scope, u, memory)) =>
              (ret'.ok => store' # store)]_vars

\* C32: once Close has returned, a later Send returns an error, writes
\* nothing and is never left waiting, and a later Close returns "already
\* closed".
C32_ClosedAdapterStaysClosed ==
    /\ cli.closed => cli.output = cli.closedOutput
    /\ \A c \in CLICallers :
          /\ (cli.after[c] /\ cli.pc[c] = "idle" /\ cli.last[c].op = "Send")
                => cli.last[c].err = ErrAdapterClosed
          /\ (cli.after[c] /\ cli.pc[c] = "idle" /\ cli.last[c].op = "Close")
                => cli.last[c].err = ErrAlreadyClosed
          /\ (cli.after[c] /\ cli.pc[c] = "print") => ENABLED CLIPrint(c)

\* C33 as stated: whatever a handler does to the event it was called with,
\* every handler and every callback of the event is called with what the
\* producer emitted, the data its fields refer to included.
C33_HandlersObserveTheEmittedEvent ==
    /\ \A i \in 1..Len(payload.seen) : payload.seen[i] = Emitted
    /\ \A k \in 1..Len(payload.cbSeen) : payload.cbSeen[k] = Emitted

\* C33: every handler is called with its own copy of the struct, so an
\* assignment to a field of it is seen by no other handler and no callback;
\* data the struct refers to is shared and not covered.
C33_HandlersGetTheirOwnCopy ==
    /\ payload.data.String = Emitted.String
    /\ \A i \in 1..Len(payload.seen) :
          payload.seen[i].String = Emitted.String
    /\ \A k \in 1..Len(payload.cbSeen) :
          payload.cbSeen[k].String = Emitted.String

\* the first handler has assigned to its copy, and a second handler and a
\* callback were called after that
C33_Witness ==
    /\ Len(payload.args) = 2
    /\ payload.args[1].String = "bar"
    /\ payload.args[2].String = Emitted.String
    /\ hstatus[1] = "done"
    /\ Len(payload.cbSeen) > 0

\* C34: while the loop is at its read of evt.AbortEarly or hands the event
\* to the callbacks, no handler goroutine of the event can write the flag
\* through FinishEventContent.
C34_NoWriterWhileLoopAccessesEvent ==
    pcL \in {"check", "callbacks"} =>
        \A i \in 1..Len(hh) : ~ENABLED FinishEventContent(i)

\* C35: with handlerTimeout = 0 the loop starts a handler or invokes a
\* callback only when no handler it started before is still running.
C35_SequentialWithoutTimeout ==
    [][(handlerTimeout = NoTimeout /\ (ExecuteEventHandler \/ InvokeCallback))
          => \A i \in 1..Len(hstatus) : hstatus[i] # "running"]_vars

\* C36: when Shutdown is called while HandleEvents is not running, the
\* call closes the input itself and sends no request to the loop, no event
\* is ever dispatched (no InitEvent, no queued event, no ShutdownEvent),
\* HandleEvents never gets going, and a call whose ctx is cancelled while
\* it drains can return at once.
C36_ShutdownWithoutLoopDispatchesNothing ==
    (winner \in Callers /\ ~winnerInfo.running) =>
        /\ pcS[winner] \in {"check", "closeInput", "drain", "returned"}
        /\ nReq = 0
        /\ started = <<>> /\ cur = NoEvent
        /\ pcL \in {"idle", "returned"}
        /\ (pcS[winner] = "drain" /\ ctxDone[winner] /\ Alive)
              => ENABLED ShutdownCtxDone(winner)

\* a Shutdown called with two events accepted and no HandleEvents running
\* has returned on its cancelled ctx before the queue was flushed
C36_Witness ==
    /\ winner \in Cancellable
    /\ ~winnerInfo.running
    /\ winnerInfo.n = 2
    /\ pcS[winner] = "returned"
    /\ ctxDone[winner]
    /\ inputClosed /\ ~loopClosed
    /\ queue # <<>>

\* C37: no callback takes the program down, and while the loop is in a
\* callback that never returns, an event queued behind it can be taken by
\* the loop and the request of a Shutdown call can be received.
C37_CallbackCannotStallDispatch ==
    /\ panicked # CallbackPanic
    /\ pcL = "inCallback" =>
          /\ QueueSending => ENABLED LoopTake
          /\ \A s \in Callers :
                pcS[s] = "sendReq" => ENABLED LoopRecvShutdown(s)

\* C38: a handler goroutine whose handler function has returned can
\* deliver its result: the loop is in the select of the executeEventHandler
\* call that started it, ready to receive from `done`.
C38_ReturnedHandlerCanDeliver ==
    \A i \in 1..Len(hstatus) :
        hstatus[i] = "returned" => (pcL = "wait" /\ hi = i)

\* C20: once a callback of an event has been invoked, no handler of the
\* event is still running.
C20_NoHandlerRunsAtCallback ==
    cbLog # <<>> => \A i \in 1..Len(hh) : hstatus[i] # "running"
====
